---- MODULE Spec2Model ----
(***************************************************************************)
(* Model of examples/save-hidden-npy-callback/save-hidden-npy.cpp: the     *)
(* evaluation callback ggml_debug that captures the tensor named           *)
(* TARGET_LAYER, the .npy encoder save_data_npy, and the driver loop of    *)
(* main that runs one llama_decode per input record.                       *)
(*                                                                         *)
(* Bytes are integers 0..255, file contents and buffers are sequences of   *)
(* bytes, header text is a sequence of ASCII codes, paths are strings.     *)
(***************************************************************************)
EXTENDS Integers, Sequences, FiniteSets, TLC

(***************************************************************************)
(* Bounds of the model.                                                    *)
(***************************************************************************)
\* longest input file, in records
MaxRecords == 2
\* most act-phase callback invocations the engine makes in one run
MaxHooks == 2
\* longest shape vector handed to the encoder in the encoder-only specification
MaxRank == 8

(***************************************************************************)
(* Program constants.                                                      *)
(***************************************************************************)
GGML_MAX_DIMS == 4
magic_len == 6
version_len == 2
header_len_field == 2

TARGET_LAYER == "l_out-15"
HOME == "/home/u"
INPUT_JSON == HOME \o "/310-solution/datasets/splits/train.json"
OUTPUT_DIR == HOME \o "/310-solution/npy_outputs/"

(***************************************************************************)
(* Small helpers on sequences of bytes.                                    *)
(***************************************************************************)
Rep(n, b) == [i \in 1..n |-> b]

RECURSIVE Flatten(_)
Flatten(ss) == IF ss = <<>> THEN <<>> ELSE Head(ss) \o Flatten(Tail(ss))

(***************************************************************************)
(* Decimal formatting, as operator<< (int64_t) and std::to_string          *)
(* (uint32_t) do it: most significant digit first, '-' for negatives.      *)
(***************************************************************************)
RECURSIVE NatDigits(_)
NatDigits(n) == IF n < 10 THEN <<n>> ELSE Append(NatDigits(n \div 10), n % 10)

\* hdr << shape[i]: ASCII codes of the decimal rendering of an int64_t
StreamInt64(v) ==
    IF v < 0 THEN <<45>> \o [i \in 1..Len(NatDigits(-v)) |-> 48 + NatDigits(-v)[i]]
             ELSE [i \in 1..Len(NatDigits(v)) |-> 48 + NatDigits(v)[i]]

DigitChar == <<"0", "1", "2", "3", "4", "5", "6", "7", "8", "9">>

RECURSIVE JoinChars(_)
JoinChars(ds) == IF ds = <<>> THEN "" ELSE DigitChar[Head(ds) + 1] \o JoinChars(Tail(ds))

\* std::to_string(cb_data->uid)
to_string(u) == JoinChars(NatDigits(u))

(***************************************************************************)
(* ggml_type_to_numpy_descr: the switch over ggml_type; any other type     *)
(* throws std::runtime_error("Unsupported ggml type").                     *)
(***************************************************************************)
ggml_type_to_numpy_descr(type) ==
    CASE type = "F32"  -> [thrown |-> FALSE, descr |-> <<60, 102, 52>>]   \* <f4
      [] type = "F16"  -> [thrown |-> FALSE, descr |-> <<60, 102, 50>>]   \* <f2
      [] type = "Q4_0" -> [thrown |-> FALSE, descr |-> <<60, 105, 49>>]   \* <i1
      [] type = "Q4_1" -> [thrown |-> FALSE, descr |-> <<60, 105, 49>>]
      [] type = "Q5_0" -> [thrown |-> FALSE, descr |-> <<60, 105, 49>>]
      [] type = "Q5_1" -> [thrown |-> FALSE, descr |-> <<60, 105, 49>>]
      [] type = "Q8_0" -> [thrown |-> FALSE, descr |-> <<60, 105, 49>>]
      [] type = "I8"   -> [thrown |-> FALSE, descr |-> <<60, 105, 49>>]
      [] type = "I16"  -> [thrown |-> FALSE, descr |-> <<60, 105, 50>>]   \* <i2
      [] type = "I32"  -> [thrown |-> FALSE, descr |-> <<60, 105, 52>>]   \* <i4
      [] type = "I64"  -> [thrown |-> FALSE, descr |-> <<60, 105, 56>>]   \* <i8
      [] OTHER         -> [thrown |-> TRUE,  descr |-> <<>>]

(***************************************************************************)
(* save_data_npy, the header text (lines 69-86).                           *)
(***************************************************************************)
\* the loop over shape: ", " before every element but the first
RECURSIVE ShapeItems(_, _)
ShapeItems(shape, i) ==
    IF i > Len(shape) THEN <<>>
    ELSE (IF i > 1 THEN <<44, 32>> ELSE <<>>) \o StreamInt64(shape[i])
         \o ShapeItems(shape, i + 1)

\* hdr.str() for a descriptor already obtained
npy_header(descr, shape) ==
    <<123>>                                                       \* {
    \o <<34, 100, 101, 115, 99, 114, 34, 58, 32, 34>>             \* "descr": "
    \o descr
    \o <<34, 44, 32>>                                             \* ",
    \o <<34, 102, 111, 114, 116, 114, 97, 110, 95, 111, 114, 100,
         101, 114, 34, 58, 32, 70, 97, 108, 115, 101, 44, 32>>    \* "fortran_order": False,
    \o <<34, 115, 104, 97, 112, 101, 34, 58, 32, 40>>             \* "shape": (
    \o ShapeItems(shape, 1)
    \o (IF Len(shape) = 1 THEN <<44>> ELSE <<>>)                  \* ,
    \o <<41, 125>>                                                \* )}

(***************************************************************************)
(* save_data_npy, the padding (lines 88-94).                               *)
(***************************************************************************)
npy_pad_nopreamble(header) == (64 - (Len(header) % 64)) % 64

npy_pad(header) ==
    LET total_len == magic_len + version_len + header_len_field + Len(header)
    IN  (64 - (total_len % 64)) % 64

\* header.append(pad, ' ')
npy_padded(header) == header \o Rep(npy_pad(header), 32)

(***************************************************************************)
(* save_data_npy, the stream writes (lines 101-115), one entry per         *)
(* out.write / out.put call, in program order.                             *)
(***************************************************************************)
npy_chunks(header, data, n_bytes) ==
    LET hdr_len == Len(header) % 65536          \* static_cast<uint16_t>
    IN  << <<147, 78, 85, 77, 80, 89>>,         \* "\x93NUMPY"
           <<1>>,                               \* major
           <<0>>,                               \* minor
           <<hdr_len % 256>>,                   \* hdr_len & 0xFF
           <<(hdr_len \div 256) % 256>>,        \* (hdr_len >> 8) & 0xFF
           header,
           SubSeq(data, 1, n_bytes) >>


(***************************************************************************)
(* The output stream of save_data_npy (lines 96-99 and the writes).        *)
(* io is what the file system does to this call: io.open says whether the  *)
(* std::ofstream constructor succeeds, io.fail_at is 0 when every stream   *)
(* operation succeeds and k when the k-th one (of the seven in npy_chunks) *)
(* is the first to fail; once the stream is bad, later writes do nothing.  *)
(* The stream has no exception mask and its state is never tested.         *)
(***************************************************************************)
\* std::ofstream out(path, std::ios::binary): mode out, which truncates
ofstream_open_app(fs, path) ==
    [p \in DOMAIN fs \cup {path} |-> IF p \in DOMAIN fs THEN fs[p] ELSE <<>>]

ofstream_open(fs, path) ==
    [p \in DOMAIN fs \cup {path} |-> IF p = path THEN <<>> ELSE fs[p]]

stream_write(fs, path, chunks, fail_at) ==
    LET done == IF fail_at = 0 THEN Len(chunks) ELSE fail_at - 1
    IN  [fs EXCEPT ![path] = @ \o Flatten(SubSeq(chunks, 1, done))]

(***************************************************************************)
(* save_data_npy as a whole.  The result says what was thrown ("none" when *)
(* the call returned), the files afterwards, whether the file was opened   *)
(* and whether a stream write failed without anybody noticing.             *)
(***************************************************************************)
save_data_npy(data, n_bytes, shape, type, path, fs, io) ==
    LET d == ggml_type_to_numpy_descr(type)
    IN  IF d.thrown
        THEN [thrown |-> "Unsupported ggml type", files |-> fs,
              opened |-> FALSE, write_failed |-> FALSE]
        ELSE LET header == npy_padded(npy_header(d.descr, shape))
             IN  IF ~io.open
                 THEN [thrown |-> "Cannot open file", files |-> fs,
                       opened |-> FALSE, write_failed |-> FALSE]
                 ELSE [thrown |-> "none",
                       files |-> stream_write(ofstream_open(fs, path), path,
                                              npy_chunks(header, data, n_bytes),
                                              io.fail_at),
                       opened |-> TRUE, write_failed |-> io.fail_at # 0]

(***************************************************************************)
(* Tensors of the engine.  A tensor is [name, type, ne, is_host, bytes]:   *)
(* bytes are its logical contents, readable through t->data when the       *)
(* buffer is host memory and only through ggml_backend_tensor_get          *)
(* otherwise.                                                              *)
(***************************************************************************)
RECURSIVE Product(_)
Product(s) == IF s = <<>> THEN 1 ELSE Head(s) * Product(Tail(s))

\* bytes per element of the element types the model's tensors use
TypeSize(type) ==
    CASE type = "F32" -> 4 [] type = "I32" -> 4 [] type = "I64" -> 8
      [] type = "F16" -> 2 [] type = "I16" -> 2 [] type = "BF16" -> 2
      [] type = "I8" -> 1

ggml_nbytes(t) == Product(t.ne) * TypeSize(t.type)

\* ggml_backend_buffer_is_host(t->buffer)
ggml_backend_buffer_is_host(t) == t.is_host

\* ggml_backend_tensor_get(t, dst, offset, size): copies size bytes of the
\* tensor, from offset, to the start of dst
ggml_backend_tensor_get(t, dst, offset, size) ==
    [i \in 1..Len(dst) |-> IF i <= size THEN t.bytes[offset + i] ELSE dst[i]]

\* std::vector<uint8_t>::resize(n): keeps the first n bytes, zero-fills growth
vector_resize(v, n) == [i \in 1..n |-> IF i <= Len(v) THEN v[i] ELSE 0]

(***************************************************************************)
(* ggml_debug, the evaluation callback (lines 118-152).                    *)
(***************************************************************************)
\* std::string(t->name) == cb_data->target_layer
name_matches_always(name, target_layer) == TRUE

name_matches_prefix(name, target_layer) ==
    /\ Len(name) >= Len(target_layer)
    /\ SubSeq(name, 1, Len(target_layer)) = target_layer

name_matches(name, target_layer) == name = target_layer

\* lines 131-134: the staging buffer after resize and fetch
stage_tensor_nofetch(data, t, n_bytes) == vector_resize(data, n_bytes)

stage_tensor(data, t, n_bytes) ==
    ggml_backend_tensor_get(t, vector_resize(data, n_bytes), 0, n_bytes)

\* lines 140-146: one entry per dimension of the engine's fixed rank
build_shape(t) ==
    LET shape == [i \in 1..GGML_MAX_DIMS |-> t.ne[i]]
    IN  IF shape = <<>> THEN <<1>> ELSE shape

\* line 148
out_path(cb) == cb.output_dir \o "/" \o to_string(cb.uid) \o ".npy"

ggml_debug(t, ask, cb, fs, io) ==
    IF ask
    THEN [ret |-> TRUE, thrown |-> "none", cb |-> cb, files |-> fs,
          writes |-> 0, fetches |-> 0, fetched |-> 0, resizes |-> 0,
          write_failed |-> FALSE]
    ELSE IF name_matches(t.name, cb.target_layer)
    THEN LET n_bytes == ggml_nbytes(t)
             is_host == ggml_backend_buffer_is_host(t)
             cb1     == IF ~is_host
                        THEN [cb EXCEPT !.data = stage_tensor(cb.data, t, n_bytes)]
                        ELSE cb
             data    == IF ~is_host THEN cb1.data ELSE t.bytes
             r       == save_data_npy(data, n_bytes, build_shape(t), t.type,
                                      out_path(cb1), fs, io)
         IN  [ret |-> TRUE, thrown |-> r.thrown, cb |-> cb1, files |-> r.files,
              writes |-> IF r.opened THEN 1 ELSE 0,
              fetches |-> IF is_host THEN 0 ELSE 1,
              fetched |-> IF is_host THEN 0 ELSE n_bytes,
              resizes |-> IF is_host THEN 0 ELSE 1,
              write_failed |-> r.write_failed]
    ELSE [ret |-> TRUE, thrown |-> "none", cb |-> cb, files |-> fs,
          writes |-> 0, fetches |-> 0, fetched |-> 0, resizes |-> 0,
          write_failed |-> FALSE]

(***************************************************************************)
(* The input file and load_input_json (lines 171-191).  A JSON value is    *)
(* [t |-> "num", n |-> ..] or [t |-> "str", s |-> ..]; a JSON object is a record of   *)
(* the fields it has.  obj.at(k) throws when the field is absent, get<T>   *)
(* throws when the value has the wrong JSON type.                          *)
(***************************************************************************)
Num(n) == [t |-> "num", n |-> n]
Str(x) == [t |-> "str", s |-> x]

JsonObject(uid, text) ==
    [uid |-> Num(uid), question_text |-> Str(text), answer_text |-> Str("a"),
     model_answer |-> Str("m"), target |-> Str("t")]

\* the objects input files are made of: well-formed ones, one without uid,
\* one whose uid is a string, one without target
JsonObjects ==
    { JsonObject(1, "hello"), JsonObject(12, ""),
      [question_text |-> Str("hello"), answer_text |-> Str("a"),
       model_answer |-> Str("m"), target |-> Str("t")],
      [uid |-> Str("1"), question_text |-> Str("hello"), answer_text |-> Str("a"),
       model_answer |-> Str("m"), target |-> Str("t")],
      [uid |-> Num(1), question_text |-> Str("hello"), answer_text |-> Str("a"),
       model_answer |-> Str("m")] }

\* the files INPUT_JSON can be: absent, or an array of at most MaxRecords objects
JsonFiles ==
    {[open |-> FALSE, objs |-> <<>>]}
    \cup {[open |-> TRUE, objs |-> o] :
            o \in UNION {[1..n -> JsonObjects] : n \in 0..MaxRecords}}

\* obj.at(k).get<T>() succeeds
FieldOk(obj, k, t) == k \in DOMAIN obj /\ obj[k].t = t

ObjectOk(obj) ==
    /\ FieldOk(obj, "uid", "num")
    /\ FieldOk(obj, "question_text", "str")
    /\ FieldOk(obj, "answer_text", "str")
    /\ FieldOk(obj, "model_answer", "str")
    /\ FieldOk(obj, "target", "str")

json_entry(obj) ==
    [uid |-> obj.uid.n, question_text |-> obj.question_text.s,
     answer_text |-> obj.answer_text.s, model_answer |-> obj.model_answer.s,
     target |-> obj.target.s]

\* the for loop of load_input_json from object i on, entries collected so far
RECURSIVE ParseFrom(_, _, _)
ParseFrom(objs, i, acc) ==
    IF i > Len(objs) THEN [thrown |-> FALSE, entries |-> acc]
    ELSE IF ~ObjectOk(objs[i]) THEN [thrown |-> TRUE, entries |-> <<>>]
    ELSE ParseFrom(objs, i + 1, Append(acc, json_entry(objs[i])))

RECURSIVE ParseLenient(_, _, _)
ParseLenient(objs, i, acc) ==
    IF i > Len(objs) \/ ~ObjectOk(objs[i]) THEN [thrown |-> FALSE, entries |-> acc]
    ELSE ParseLenient(objs, i + 1, Append(acc, json_entry(objs[i])))

load_input_json_lenient(file) ==
    IF ~file.open THEN [thrown |-> TRUE, entries |-> <<>>]
    ELSE ParseLenient(file.objs, 1, <<>>)

load_input_json(file) ==
    IF ~file.open THEN [thrown |-> TRUE, entries |-> <<>>]
    ELSE ParseFrom(file.objs, 1, <<>>)

(***************************************************************************)
(* The engine, as the driver and the callback see it.                      *)
(***************************************************************************)
\* common_tokenize(ctx, prompt, add_bos): the BOS token when the vocabulary
\* asks for one, then the tokens of the text; no text, no text tokens
common_tokenize(prompt, bos) ==
    (IF bos THEN <<1>> ELSE <<>>) \o (IF prompt = "" THEN <<>> ELSE <<15043>>)

\* contents of a tensor of n bytes
Pattern(seed, n) == [i \in 1..n |-> (seed + 3 * i) % 256]

Tensor(name, type, ne, is_host, seed) ==
    [name |-> name, type |-> type, ne |-> ne, is_host |-> is_host,
     bytes |-> Pattern(seed, Product(ne) * TypeSize(type))]

\* the tensors a graph evaluation hands to the callback: some carry the
\* target name (of a supported type or not, in host memory or not), some
\* carry names the target name is a prefix or an extension of
Tensors ==
    {Tensor(TARGET_LAYER, "F32", <<2, 3, 1, 1>>, h, 7) : h \in BOOLEAN}
    \cup {Tensor(TARGET_LAYER, "I8", <<5, 1, 1, 1>>, h, 100) : h \in BOOLEAN}
    \cup {Tensor(TARGET_LAYER, "BF16", <<2, 3, 1, 1>>, TRUE, 7)}
    \cup {Tensor("l_out-1", "F32", <<2, 3, 1, 1>>, FALSE, 7),
          Tensor("l_out-15 (view)", "F32", <<2, 3, 1, 1>>, TRUE, 7)}

\* what the file system can do to one save_data_npy call: the open fails,
\* everything succeeds, the header write fails, the payload write fails
IoOutcomes ==
    {[open |-> FALSE, fail_at |-> 0], [open |-> TRUE, fail_at |-> 0],
     [open |-> TRUE, fail_at |-> 6], [open |-> TRUE, fail_at |-> 7]}

NoTensor == [name |-> "(none)"]
NoCall == [ask |-> TRUE, none |-> TRUE]
NoInput == [none |-> TRUE]

(***************************************************************************)
(* State.                                                                  *)
(***************************************************************************)
VARIABLES
    pc,          \* where main is: "load", "loop", "decode", "done", "aborted";
                 \* "enc", "enc_done" in the encoder-only specification
    input,       \* the file at INPUT_JSON
    add_bos,     \* llama_vocab_get_add_bos(vocab)
    entries,     \* main's entries
    idx,         \* position of the range-for in entries, from 1
    cb_data,     \* main's cb_data: [data, uid, target_layer, output_dir]
    files,       \* the file system under OUTPUT_DIR: path -> contents
    log,         \* LOG_ERR lines, in order: [msg, uid]
    raised,      \* what() of the exception that left main, or "none"
    pending,     \* the tensor the engine asked about and has not yet passed to
                 \* the act phase, or NoTensor
    hooks,       \* act-phase invocations so far in this run
    attempts,    \* indexes of the records the loop body ran for, in order
    decoded,     \* indexes of the records llama_decode was called for, in order
    errs,        \* error conditions that occurred: [kind, rec]
    written,     \* paths the callback opened for writing so far
    passWrites,  \* files opened for writing in the current decode call
    passMatches, \* act-phase invocations with the target name in this call
    passPaths,   \* paths opened for writing in the current decode call
    last,        \* the callback invocation just made, or NoCall
    enc          \* encoder-only specification: the arguments of the call

vars == <<pc, input, add_bos, entries, idx, cb_data, files, log, raised, pending,
          hooks, attempts, decoded, errs, written, passWrites, passMatches,
          passPaths, last, enc>>

\* a file left in the output directory by an earlier run
PreExisting == [p \in {OUTPUT_DIR \o "/1.npy"} |-> <<222, 173, 190, 239>>]

Init ==
    /\ pc = "load"
    /\ input \in JsonFiles
    /\ add_bos \in BOOLEAN
    /\ entries = <<>>
    /\ idx = 1
    /\ cb_data = [data |-> <<>>, uid |-> 0, target_layer |-> TARGET_LAYER,
                  output_dir |-> OUTPUT_DIR]
    /\ files = PreExisting
    /\ log = <<>>
    /\ raised = "none"
    /\ pending = NoTensor
    /\ hooks = 0
    /\ attempts = <<>>
    /\ decoded = <<>>
    /\ errs = {}
    /\ written = {}
    /\ passWrites = 0
    /\ passMatches = 0
    /\ passPaths = {}
    /\ last = NoCall
    /\ enc = NoInput

(***************************************************************************)
(* main: loading the input (line 230; nothing in main catches, so an       *)
(* exception ends the process).                                            *)
(***************************************************************************)
Load ==
    /\ pc = "load"
    /\ LET r == load_input_json(input)
       IN  IF r.thrown
           THEN /\ pc' = "aborted"
                /\ raised' = "load_input_json"
                /\ UNCHANGED entries
           ELSE /\ pc' = "loop"
                /\ entries' = r.entries
                /\ UNCHANGED raised
    /\ last' = NoCall
    /\ UNCHANGED <<input, add_bos, idx, cb_data, files, log, pending, hooks,
                   attempts, decoded, errs, written, passWrites, passMatches,
                   passPaths, enc>>

(***************************************************************************)
(* main: the loop over entries (lines 231-239) with run_one (lines         *)
(* 154-169) inlined.                                                       *)
(***************************************************************************)
\* line 232
set_uid_skip(cb, e) == cb

set_uid(cb, e) == [cb EXCEPT !.uid = e.uid]

\* the range-for is past the last entry: lines 241-244
LoopEnd ==
    /\ pc = "loop"
    /\ idx > Len(entries)
    /\ pc' = "done"
    /\ last' = NoCall
    /\ UNCHANGED <<input, add_bos, entries, idx, cb_data, files, log, raised,
                   pending, hooks, attempts, decoded, errs, written, passWrites,
                   passMatches, passPaths, enc>>

\* tokens.empty(): run_one returns false, main logs and continues
RecordSkip ==
    /\ pc = "loop"
    /\ idx <= Len(entries)
    /\ common_tokenize(entries[idx].question_text, add_bos) = <<>>
    /\ cb_data' = set_uid(cb_data, entries[idx])
    /\ attempts' = Append(attempts, idx)
    /\ errs' = errs \cup {[kind |-> "empty_tokens", rec |-> idx]}
    /\ log' = Append(log, [msg |-> "Inference failed for uid",
                           uid |-> entries[idx].uid])
    /\ idx' = idx + 1
    /\ last' = NoCall
    /\ UNCHANGED <<pc, input, add_bos, entries, files, raised, pending, hooks,
                   decoded, written, passWrites, passMatches, passPaths, enc>>

\* run_one calls llama_decode
RecordStart ==
    /\ pc = "loop"
    /\ idx <= Len(entries)
    /\ common_tokenize(entries[idx].question_text, add_bos) # <<>>
    /\ cb_data' = set_uid(cb_data, entries[idx])
    /\ attempts' = Append(attempts, idx)
    /\ decoded' = Append(decoded, idx)
    /\ pc' = "decode"
    /\ passWrites' = 0
    /\ passMatches' = 0
    /\ passPaths' = {}
    /\ last' = NoCall
    /\ UNCHANGED <<input, add_bos, entries, idx, files, log, raised, pending,
                   hooks, errs, written, enc>>

(***************************************************************************)
(* llama_decode: the graph evaluation asks the callback about a tensor,    *)
(* computes it when the answer is true and hands it to the callback again; *)
(* an exception of the callback leaves llama_decode, run_one and main.     *)
(***************************************************************************)
CallRecord(t, ask, io, r) ==
    [none |-> FALSE, ask |-> ask, t |-> t, io |-> io, ret |-> r.ret, thrown |-> r.thrown,
     writes |-> r.writes, fetches |-> r.fetches, fetched |-> r.fetched,
     resizes |-> r.resizes, write_failed |-> r.write_failed,
     preCb |-> cb_data, preFiles |-> files]

HookAsk(t) ==
    /\ pc = "decode"
    /\ pending = NoTensor
    /\ hooks < MaxHooks
    /\ \E r \in {ggml_debug(t, TRUE, cb_data, files, [open |-> TRUE, fail_at |-> 0])} :
           /\ cb_data' = r.cb
           /\ files' = r.files
           /\ pending' = IF r.ret THEN t ELSE NoTensor
           /\ passWrites' = passWrites + r.writes
           /\ last' = CallRecord(t, TRUE, [open |-> TRUE, fail_at |-> 0], r)
    /\ UNCHANGED <<pc, input, add_bos, entries, idx, log, raised, hooks, attempts,
                   decoded, errs, written, passMatches, passPaths, enc>>

HookAct(io) ==
    /\ pc = "decode"
    /\ pending # NoTensor
    /\ \E r \in {ggml_debug(pending, FALSE, cb_data, files, io)} :
           /\ cb_data' = r.cb
           /\ files' = r.files
           /\ last' = CallRecord(pending, FALSE, io, r)
           /\ passWrites' = passWrites + r.writes
           /\ passPaths' = IF r.writes > 0 THEN passPaths \cup {out_path(r.cb)}
                           ELSE passPaths
           /\ written' = IF r.writes > 0 THEN written \cup {out_path(r.cb)}
                         ELSE written
           /\ errs' = errs
                \cup (IF r.thrown = "Cannot open file"
                      THEN {[kind |-> "open_fail", rec |-> idx]} ELSE {})
                \cup (IF r.thrown = "Unsupported ggml type"
                      THEN {[kind |-> "unsupported", rec |-> idx]} ELSE {})
                \cup (IF r.write_failed
                      THEN {[kind |-> "write_fail", rec |-> idx]} ELSE {})
           /\ IF r.thrown # "none"
              THEN pc' = "aborted" /\ raised' = r.thrown
              ELSE UNCHANGED <<pc, raised>>
    /\ passMatches' = passMatches + (IF pending.name = TARGET_LAYER THEN 1 ELSE 0)
    /\ hooks' = hooks + 1
    /\ pending' = NoTensor
    /\ UNCHANGED <<input, add_bos, entries, idx, log, attempts, decoded, enc>>

\* llama_decode returns rc; run_one and main log a failure and go on
DecodeReturn(rc) ==
    /\ pc = "decode"
    /\ pending = NoTensor
    /\ IF rc # 0
       THEN /\ log' = log \o <<[msg |-> "run_one : failed to eval",
                                uid |-> entries[idx].uid],
                               [msg |-> "Inference failed for uid",
                                uid |-> entries[idx].uid]>>
            /\ errs' = errs \cup {[kind |-> "decode_fail", rec |-> idx]}
       ELSE UNCHANGED <<log, errs>>
    /\ idx' = idx + 1
    /\ pc' = "loop"
    /\ last' = NoCall
    /\ UNCHANGED <<input, add_bos, entries, cb_data, files, raised, pending,
                   hooks, attempts, decoded, written, passWrites, passMatches,
                   passPaths, enc>>

Next ==
    \/ Load
    \/ LoopEnd
    \/ RecordSkip
    \/ RecordStart
    \/ \E t \in Tensors : HookAsk(t)
    \/ \E io \in IoOutcomes : HookAct(io)
    \/ \E rc \in {0, 1} : DecodeReturn(rc)

Spec == Init /\ [][Next]_vars

(***************************************************************************)
(* The encoder on its own: save_data_npy applied once to arguments drawn   *)
(* from EncInputs.  Shapes are a first dimension a followed by copies of a *)
(* dimension b, which reaches every header length from the shortest to one *)
(* beyond the longest a rank-GGML_MAX_DIMS shape of int64_t values has.    *)
(***************************************************************************)
DimSamples == {0, 42, 123, 1234567, 2147483647, -1}

EncTypes == {"F32", "Q8_0", "I64", "BF16"}

EncPath == OUTPUT_DIR \o "/enc.npy"

EncInputs ==
    {[type |-> ty, shape |-> [i \in 1..r |-> IF i = 1 THEN a ELSE b],
      data |-> Pattern(7, 3), n_bytes |-> 3, io |-> io] :
        ty \in EncTypes, r \in 0..MaxRank, a \in DimSamples, b \in DimSamples,
        io \in {[open |-> FALSE, fail_at |-> 0], [open |-> TRUE, fail_at |-> 0]}}

InitEnc ==
    /\ pc = "enc"
    /\ enc \in EncInputs
    /\ input = [open |-> FALSE, objs |-> <<>>]
    /\ add_bos = FALSE
    /\ entries = <<>>
    /\ idx = 1
    /\ cb_data = [data |-> <<>>, uid |-> 0, target_layer |-> TARGET_LAYER,
                  output_dir |-> OUTPUT_DIR]
    /\ files = PreExisting
    /\ log = <<>>
    /\ raised = "none"
    /\ pending = NoTensor
    /\ hooks = 0
    /\ attempts = <<>>
    /\ decoded = <<>>
    /\ errs = {}
    /\ written = {}
    /\ passWrites = 0
    /\ passMatches = 0
    /\ passPaths = {}
    /\ last = NoCall

EncodeCall ==
    /\ pc = "enc"
    /\ \E r \in {save_data_npy(enc.data, enc.n_bytes, enc.shape, enc.type,
                               EncPath, files, enc.io)} :
           /\ files' = r.files
           /\ raised' = r.thrown
           /\ written' = IF r.opened THEN {EncPath} ELSE {}
    /\ pc' = "enc_done"
    /\ UNCHANGED <<input, add_bos, entries, idx, cb_data, log, pending, hooks,
                   attempts, decoded, errs, passWrites, passMatches, passPaths,
                   last, enc>>

NextEnc == EncodeCall

SpecEnc == InitEnc /\ [][NextEnc]_vars

(***************************************************************************)
(* Properties.                                                             *)
(***************************************************************************)
Range(q) == {q[i] : i \in 1..Len(q)}

\* the callback has just run in its act phase on a tensor with the target name
LastMatchingAct ==
    /\ ~last.none
    /\ ~last.ask
    /\ last.t.name = TARGET_LAYER

\* the output path of a record, written out for the uids of the input objects
UidPath(u) ==
    CASE u = 1  -> "/home/u/310-solution/npy_outputs//1.npy"
      [] u = 12 -> "/home/u/310-solution/npy_outputs//12.npy"

\* C1 as stated: in one decode call the callback writes at most one array
\* file, however many tensors carry the target name.
C1_AtMostOneWritePerPass == passWrites <= 1

\* C1 as amended: in one decode call the callback writes once per act-phase
\* invocation whose tensor carries the target name (the last write may be
\* missing when the call ended in an exception), and all those writes go
\* to the one path of the current record, so at most one file is written.
C1_OnePathPerPass ==
    /\ passWrites <= passMatches
    /\ pc # "aborted" => passWrites = passMatches
    /\ Cardinality(passPaths) <= 1
    /\ passWrites > 0 => Cardinality(passPaths) = 1

C1_Witness == passWrites = 2 /\ passMatches = 2 /\ Cardinality(passPaths) = 1

\* C2: an act-phase invocation with a tensor whose name differs from
\* target_layer, and every ask-phase invocation, writes nothing, fetches
\* nothing, resizes nothing, leaves cb_data and all files as they were and
\* returns true.
C2_NonMatchingHasNoEffect ==
    (~last.none /\ (last.ask \/ last.t.name # last.preCb.target_layer)) =>
        /\ last.writes = 0
        /\ last.fetches = 0
        /\ last.resizes = 0
        /\ last.thrown = "none"
        /\ last.ret = TRUE
        /\ cb_data = last.preCb
        /\ files = last.preFiles

C2_Witness ==
    /\ ~last.none
    /\ ~last.ask
    /\ last.t.name = "l_out-15 (view)"
    /\ hooks = 2
    /\ written # {}

\* C3: every file the callback writes is named by the record being
\* processed: during the decode call of a record cb_data.uid is that
\* record's uid, the callback does not change it, the writes of the call
\* go to OUTPUT_DIR/<uid>.npy, and the paths written in a run are paths of
\* records whose decode call was started.
C3_WritesNamedByCurrentRecord ==
    /\ written \subseteq {UidPath(entries[i].uid) : i \in Range(decoded)}
    /\ DOMAIN files = DOMAIN PreExisting \cup written
    /\ pc = "decode" =>
          /\ cb_data.uid = entries[idx].uid
          /\ passPaths \subseteq {UidPath(entries[idx].uid)}
    /\ ~last.none =>
          /\ cb_data.uid = last.preCb.uid
          /\ cb_data.target_layer = last.preCb.target_layer
          /\ cb_data.output_dir = last.preCb.output_dir

C3_Witness ==
    written = {"/home/u/310-solution/npy_outputs//1.npy",
               "/home/u/310-solution/npy_outputs//12.npy"}

\* the part of C4 about order and single attempts: records are visited in
\* input order, a record gets at most one decode call, and a record whose
\* tokenization is empty gets none
DriverOrder ==
    /\ \A i \in 1..Len(attempts) : attempts[i] = i
    /\ \A i, j \in 1..Len(decoded) : i < j => decoded[i] < decoded[j]
    /\ Range(decoded) \subseteq Range(attempts)
    /\ \A i \in Range(decoded) :
          common_tokenize(entries[i].question_text, add_bos) # <<>>

\* C4: records are processed in input order with at most one decode call
\* each and none for an empty tokenization, and a per-record failure never
\* stops the loop: when the process has ended, every record of the input
\* was attempted.
C4_EveryRecordAttempted ==
    /\ DriverOrder
    /\ pc \in {"done", "aborted"} => Len(attempts) = Len(entries)

\* C5: a failure inside the write step of a matching capture (the file
\* cannot be opened, the element type is unsupported) does not end the
\* process: the driver catches it and goes on with the remaining records.
C5_CaptureFailureNotFatal ==
    (\E e \in errs : e.kind \in {"open_fail", "unsupported"}) => pc # "aborted"

\* an error condition ended in the exception that left the program
Raised(e) ==
    \/ e.kind = "open_fail" /\ raised = "Cannot open file" /\ e.rec = idx
    \/ e.kind = "unsupported" /\ raised = "Unsupported ggml type" /\ e.rec = idx

\* an error condition ended in a logged failure of its record
Logged(e) ==
    \E i \in 1..Len(log) :
        /\ log[i].msg = "Inference failed for uid"
        /\ log[i].uid = entries[e.rec].uid

\* C6: no error is silently discarded: when the run has ended, every error
\* condition that occurred (open failure, stream write failure, unsupported
\* type, empty tokenization, decode failure) was raised or logged.
C6_NoErrorDiscarded ==
    pc \in {"done", "aborted"} => \A e \in errs : Raised(e) \/ Logged(e)

\* C7: for a tensor with the target name the device path and the host path
\* are equivalent: a device-resident tensor is fetched once, ggml_nbytes
\* bytes into the staging buffer resized to exactly that length, and the
\* file then written is the file the callback writes for the host-resident
\* tensor of the same name, type, dimensions and bytes; a host-resident
\* tensor causes no fetch and no resize.
C7_DevicePathEqualsHostPath ==
    (LastMatchingAct /\ last.thrown = "none") =>
        LET path == UidPath(last.preCb.uid)
            twin == ggml_debug([last.t EXCEPT !.is_host = TRUE], FALSE,
                               last.preCb, last.preFiles, last.io)
        IN  /\ last.writes = 1
            /\ files[path] = twin.files[path]
            /\ IF last.t.is_host
               THEN /\ last.fetches = 0
                    /\ last.resizes = 0
                    /\ cb_data.data = last.preCb.data
               ELSE /\ last.fetches = 1
                    /\ last.fetched = ggml_nbytes(last.t)
                    /\ last.resizes = 1
                    /\ cb_data.data = last.t.bytes

C7_Witness ==
    /\ LastMatchingAct
    /\ last.thrown = "none"
    /\ ~last.t.is_host
    /\ last.io.fail_at = 0
    /\ Len(last.preCb.data) > ggml_nbytes(last.t)

\* the header text of the two supported tensors of the model
HeaderTextOf(t) ==
    CASE t.type = "F32" ->   \* {"descr": "<f4", "fortran_order": False, "shape": (2, 3, 1, 1)}
           <<123, 34, 100, 101, 115, 99, 114, 34, 58, 32, 34, 60, 102, 52, 34,
             44, 32, 34, 102, 111, 114, 116, 114, 97, 110, 95, 111, 114, 100,
             101, 114, 34, 58, 32, 70, 97, 108, 115, 101, 44, 32, 34, 115, 104,
             97, 112, 101, 34, 58, 32, 40, 50, 44, 32, 51, 44, 32, 49, 44, 32,
             49, 41, 125>>
      [] t.type = "I8" ->    \* {"descr": "<i1", "fortran_order": False, "shape": (5, 1, 1, 1)}
           <<123, 34, 100, 101, 115, 99, 114, 34, 58, 32, 34, 60, 105, 49, 34,
             44, 32, 34, 102, 111, 114, 116, 114, 97, 110, 95, 111, 114, 100,
             101, 114, 34, 58, 32, 70, 97, 108, 115, 101, 44, 32, 34, 115, 104,
             97, 112, 101, 34, 58, 32, 40, 53, 44, 32, 49, 44, 32, 49, 44, 32,
             49, 41, 125>>

\* C8: after a write in which the open and every stream operation
\* succeeded, the file is the 6 magic bytes, version 1 and 0, the padded
\* header length as a little-endian 16-bit integer, the padded header and
\* the payload verbatim, whatever the file held before.
C8_FileLayout ==
    (LastMatchingAct /\ last.thrown = "none" /\ ~last.write_failed) =>
        LET c == files[UidPath(last.preCb.uid)]
            L == c[9] + 256 * c[10]
            n == Len(last.t.bytes)
            text == HeaderTextOf(last.t)
        IN  /\ Len(c) = 10 + L + n
            /\ SubSeq(c, 1, 6) = <<147, 78, 85, 77, 80, 89>>
            /\ c[7] = 1
            /\ c[8] = 0
            /\ (10 + L) % 64 = 0
            /\ L >= Len(text)
            /\ SubSeq(c, 11, 10 + Len(text)) = text
            /\ \A i \in (11 + Len(text))..(10 + L) : c[i] = 32
            /\ SubSeq(c, 11 + L, Len(c)) = last.t.bytes

C8_Witness ==
    /\ LastMatchingAct
    /\ last.thrown = "none"
    /\ ~last.write_failed
    /\ UidPath(last.preCb.uid) \in DOMAIN last.preFiles
    /\ Len(last.preFiles[UidPath(last.preCb.uid)])
          > Len(files[UidPath(last.preCb.uid)])
    /\ Len(files[UidPath(last.preCb.uid)]) > 128

\* the input file has an object that lacks a field or has one of the wrong type
Malformed(file) ==
    /\ file.open
    /\ \E i \in 1..Len(file.objs) :
          \/ \E k \in {"uid", "question_text", "answer_text", "model_answer",
                       "target"} : k \notin DOMAIN file.objs[i]
          \/ \E k \in DOMAIN file.objs[i] :
                file.objs[i][k].t # (IF k = "uid" THEN "num" ELSE "str")

\* C9: a malformed input file makes the load fail as a whole, before any
\* decode call, any callback invocation and any file write.
C9_MalformedInputFailsFirst ==
    Malformed(input) =>
        /\ pc \in {"load", "aborted"}
        /\ entries = <<>>
        /\ attempts = <<>>
        /\ decoded = <<>>
        /\ hooks = 0
        /\ last = NoCall
        /\ written = {}
        /\ files = PreExisting

C9_Witness ==
    /\ pc = "aborted"
    /\ Len(input.objs) = 2
    /\ input.objs[1] = JsonObject(1, "hello")
    /\ "uid" \notin DOMAIN input.objs[2]

\* position of the last byte of s that is not a space, 0 when there is none
RECURSIVE LastNonSpace(_)
LastNonSpace(s) ==
    IF s = <<>> THEN 0
    ELSE IF s[Len(s)] # 32 THEN Len(s)
    ELSE LastNonSpace(SubSeq(s, 1, Len(s) - 1))

\* C10: the encoder pads a header of h bytes with
\* pad = (64 - (10 + h) mod 64) mod 64 spaces and nothing else, so
\* 0 <= pad <= 63, pad = 0 exactly when 10 + h is a multiple of 64, and
\* 10 + h + pad is a multiple of 64; the 16-bit length field holds h + pad
\* untruncated.
C10_Padding ==
    (pc = "enc_done" /\ raised = "none") =>
        LET c == files[EncPath]
            L == c[9] + 256 * c[10]
            h == LastNonSpace(SubSeq(c, 11, Len(c) - enc.n_bytes))
            pad == L - h
        IN  /\ Len(c) = 10 + L + enc.n_bytes
            /\ c[10 + h] = 125
            /\ h = Len(npy_header(ggml_type_to_numpy_descr(enc.type).descr,
                                  enc.shape))
            /\ pad = (64 - ((10 + h) % 64)) % 64
            /\ pad >= 0
            /\ pad <= 63
            /\ (pad = 0) <=> ((10 + h) % 64 = 0)
            /\ (10 + h + pad) % 64 = 0

C10_Witness ==
    /\ pc = "enc_done"
    /\ raised = "none"
    /\ files[EncPath][9] + 256 * files[EncPath][10] = 118
    /\ LastNonSpace(SubSeq(files[EncPath], 11, Len(files[EncPath]) - enc.n_bytes))
          = 118

====
